---- MODULE Spec2Model ----
(***************************************************************************)
(* Model of the stdio JSON-RPC transport (StdioServer) of                  *)
(* clarifai-mcp-server-local and of the driver in main() that runs it.     *)
(*                                                                         *)
(* Goroutines: the reader and the writer started by StdioServer.Start, the *)
(* handler goroutine of main (range over ReadChannel, HandleRequest, send  *)
(* on WriteChannel, Close), the main goroutine (Start, Wait) and, in the   *)
(* general specification, one more caller thread of the public API, which  *)
(* may submit Responses on WriteChannel, close that channel and invoke     *)
(* Close.  Every goroutine is followed to its own end; the process exit    *)
(* that follows the return of main is not part of the model.               *)
(***************************************************************************)
EXTENDS Integers, Sequences, FiniteSets, TLC

\* ------------------------------------------------------------------------
\* Bounds of the model
\* ------------------------------------------------------------------------

\* longest input stream, in lines
MaxLines == 2

\* capacity of the bufio.Writer buffer, in tokens (bufio's default is 4096
\* bytes).  The encodings below are 4 and 6 tokens long, so a Response that
\* fits the buffer and one that is larger than it both occur.
BufSize == 5

\* number of Responses the extra caller thread submits
MaxSubmits == 1

\* ------------------------------------------------------------------------
\* Data: identifiers, methods, lines, requests, responses
\* ------------------------------------------------------------------------

\* JSON / Go values of the id field.  t = "nil": absent or null, t = "str":
\* a string (v names it), t = "num": the number v when big is FALSE and the
\* number 2^53 + v when big is TRUE.
NilId == [t |-> "nil", big |-> FALSE, v |-> 0]

StrId(n) == [t |-> "str", big |-> FALSE, v |-> n]

NumId(n) == [t |-> "num", big |-> FALSE, v |-> n]

BigId(n) == [t |-> "num", big |-> TRUE, v |-> n]

\* Methods are strings; a method is modelled as the sequence of its
\* "/"-separated segments, so "notifications/initialized" is
\* <<"notifications", "initialized">> and "" is <<>>.
EmptyMethod == <<>>

\* the method field of a line: absent, a JSON string, or a JSON number
AbsentField == [t |-> "absent", segs |-> <<>>]

StrField(m) == [t |-> "str", segs |-> m]

NumField == [t |-> "num", segs |-> <<>>]

\* One line of the input stream.
\*   kind "object" : a JSON object with the given id and method fields
\*   kind "null"   : the JSON literal null
\*   kind "array"  : valid JSON that is not an object
\*   kind "garbage": not valid JSON (includes the empty line)
\*   kind "toolong": a line longer than bufio.MaxScanTokenSize
ObjectLine(i, m) == [kind |-> "object", id |-> i, method |-> m]

OtherLine(k) == [kind |-> k, id |-> NilId, method |-> AbsentField]

InitializeLine == ObjectLine(NumId(1), StrField(<<"initialize">>))

Lines ==
  { InitializeLine,
    ObjectLine(BigId(1), StrField(<<"ping">>)),
    ObjectLine(StrId(1), StrField(<<"notifications", "initialized">>)),
    ObjectLine(NumId(2), NumField),
    OtherLine("garbage"),
    OtherLine("toolong") }

\* the lines of the general specification, where the callers vary instead
FewLines == { InitializeLine, OtherLine("garbage") }

\* one line for every method HandleRequest routes, an unknown method and
\* a notification, each with an id of its own
RoutedLines ==
  { InitializeLine,
    ObjectLine(NumId(2), StrField(<<"tools", "list">>)),
    ObjectLine(StrId(3), StrField(<<"tools", "call">>)),
    ObjectLine(NumId(4), StrField(<<"resources", "templates", "list">>)),
    ObjectLine(NumId(5), StrField(<<"resources", "list">>)),
    ObjectLine(StrId(6), StrField(<<"resources", "read">>)),
    ObjectLine(NumId(7), StrField(<<"unknown", "method">>)),
    ObjectLine(NumId(8), StrField(<<"notifications", "something">>)) }

\* how the input stream ends after its last line: end-of-stream, a read
\* error, or it stays open and silent
Endings == {"eof", "err", "open"}

RECURSIVE SeqsUpTo(_, _)
SeqsUpTo(S, n) ==
  IF n = 0 THEN {<<>>}
  ELSE LET shorter == SeqsUpTo(S, n - 1)
       IN  shorter \cup {Append(s, x) : s \in {q \in shorter : Len(q) = n - 1}, x \in S}

\* strconv.ParseFloat(s, 64) on an integer literal, as json.Unmarshal does
\* for a number decoded into interface{}: integers up to 2^53 are exact,
\* and in [2^53, 2^54) the representable values are the even ones, ties
\* going to the even mantissa.
Float64(i) ==
  IF i.big /\ i.v % 2 = 1
  THEN [i EXCEPT !.v = IF ((i.v - 1) \div 2) % 2 = 0 THEN i.v - 1 ELSE i.v + 1]
  ELSE i

ZeroRequest == [id |-> NilId, method |-> EmptyMethod]

\* json.Unmarshal(line, &request) into a fresh JSONRPCRequest
Unmarshal(line) ==
  CASE line.kind = "garbage" -> [err |-> TRUE, req |-> ZeroRequest]
    [] line.kind = "toolong" -> [err |-> TRUE, req |-> ZeroRequest]
    [] line.kind = "array"   -> [err |-> TRUE, req |-> ZeroRequest]
    [] line.kind = "null"    -> [err |-> FALSE, req |-> ZeroRequest]
    [] OTHER ->
         [err |-> line.method.t = "num",
          req |-> [id     |-> IF line.id.t = "num" THEN Float64(line.id) ELSE line.id,
                   method |-> line.method.segs]]

\* JSONRPCResponse: result is "nil", "value" or "chan" (a value that
\* encoding/json cannot encode); error is "nil" or the code of an RPCError
Response(i, r, e) == [id |-> i, result |-> r, error |-> e]

\* the nil *JSONRPCResponse
NoResponse == [id |-> NilId, result |-> "none", error |-> "none"]

\* (variant) a test for the method "notifications" itself
IsNotificationExact(m) == m = <<"notifications">>

\* strings.HasPrefix(request.Method, "notifications/")
IsNotification(m) == Len(m) >= 2 /\ m[1] = "notifications"

\* What handleCallTool and handleReadResource make of a Request depends on
\* its params, on the configuration and on the answer of the Clarifai API,
\* none of which the model follows: an outcome is the Result and Error
\* they put in the Response.
Outcome(r, e) == [result |-> r, error |-> e]

\* (variant) a tool that may return a result together with an error
ToolOutcomesWithBoth ==
  { Outcome("nil", "NotInitialized"), Outcome("nil", "ToolNotFound"),
    Outcome("value", "nil"), Outcome("value", "ToolError") }

\* handleCallTool: client missing or no PAT (-32001), tool not found
\* (-32601), or what the tool returns
ToolOutcomes ==
  { Outcome("nil", "NotInitialized"), Outcome("nil", "ToolNotFound"),
    Outcome("value", "nil"), Outcome("nil", "ToolError") }

\* handleReadResource: bad or missing uri (-32602), client missing or no
\* PAT, an API error, or the resource contents
ResourceOutcomes ==
  { Outcome("nil", "InvalidParams"), Outcome("nil", "NotInitialized"),
    Outcome("nil", "ApiError"), Outcome("value", "nil") }

Outcomes == [tool : ToolOutcomes, resource : ResourceOutcomes]

\* the outcomes for a Request without params (a configured client): the
\* tool "" is not found, the uri is missing
NoParams ==
  [tool |-> Outcome("nil", "ToolNotFound"), resource |-> Outcome("nil", "InvalidParams")]

\* Handler.HandleRequest under the outcomes o: nil for a notification,
\* else the Response of the routed handler, or of the default case
HandleRequestIn(req, o) ==
  IF IsNotification(req.method) THEN NoResponse
  ELSE CASE req.method = <<"initialize">> -> Response(req.id, "value", "nil")
         [] req.method = <<"tools", "list">> -> Response(req.id, "value", "nil")
         [] req.method = <<"tools", "call">> ->
              Response(req.id, o.tool.result, o.tool.error)
         [] req.method = <<"resources", "templates", "list">> ->
              Response(req.id, "value", "nil")
         [] req.method \in {<<"resources", "list">>, <<"resources", "read">>} ->
              Response(req.id, o.resource.result, o.resource.error)
         [] OTHER -> Response(req.id, "nil", "MethodNotFound")

\* Handler.HandleRequest on a Request without params
HandleRequest(req) == HandleRequestIn(req, NoParams)

\* tokens of the JSON text: a literal, or the text of an id value
Lit(s) == <<"lit", s>>

IdToken(i) == <<"id", i.t, i.big, i.v>>

\* json.Marshal(response): the encoding as a sequence of tokens
Marshal(resp) ==
  IF resp.result = "chan" THEN [err |-> TRUE, bytes |-> <<>>]
  ELSE [err |-> FALSE,
        bytes |-> <<Lit("{"), IdToken(resp.id)>>
                  \o (IF resp.result = "nil" THEN <<>> ELSE <<Lit("result")>>)
                  \o (IF resp.error = "nil" THEN <<>>
                      ELSE <<Lit("error"), Lit(resp.error), Lit("data")>>)
                  \o <<Lit("}")>>]

Newline == <<Lit("NL")>>

\* ------------------------------------------------------------------------
\* bufio.Writer over the output stream
\* ------------------------------------------------------------------------

\* (variant) an output stream that does not append: what is written lands
\* in front of what is there
UnderWriteAtStart(o, p) ==
  {[out |-> p \o o, n |-> Len(p), err |-> FALSE]}
    \cup {[out |-> SubSeq(p, 1, k) \o o, n |-> k, err |-> TRUE] : k \in 0 .. (Len(p) - 1)}

\* One call of the underlying io.Writer with p: it writes all of p, or it
\* fails after writing some proper prefix of p.
UnderWrite(o, p) ==
  {[out |-> o \o p, n |-> Len(p), err |-> FALSE]}
    \cup {[out |-> o \o SubSeq(p, 1, k), n |-> k, err |-> TRUE] : k \in 0 .. (Len(p) - 1)}

\* a bufio.Writer is [buf, err, out]: buffered tokens, sticky error, and
\* the tokens that reached the output stream
Available(b) == BufSize - Len(b.buf)

\* bufio.Writer.Flush: the set of possible resulting writers
BufFlush(b) ==
  IF b.err \/ b.buf = <<>> THEN {b}
  ELSE {[buf |-> SubSeq(b.buf, r.n + 1, Len(b.buf)), err |-> r.err, out |-> r.out] :
          r \in UnderWrite(b.out, b.buf)}

\* bufio.Writer.Write / WriteString: the set of possible resulting writers
RECURSIVE BufWrite(_, _)
BufWrite(b, p) ==
  IF Len(p) > Available(b) /\ ~b.err
  THEN IF Len(b.buf) = 0
       THEN UNION {BufWrite([b EXCEPT !.out = r.out, !.err = r.err],
                            SubSeq(p, r.n + 1, Len(p))) : r \in UnderWrite(b.out, p)}
       ELSE LET n == Available(b)
            IN  UNION {BufWrite(f, SubSeq(p, n + 1, Len(p))) :
                         f \in BufFlush([b EXCEPT !.buf = @ \o SubSeq(p, 1, n)])}
  ELSE IF b.err THEN {b}
  ELSE {[b EXCEPT !.buf = @ \o p]}

\* ------------------------------------------------------------------------
\* utils.ParsePagination
\* ------------------------------------------------------------------------

\* A Go int is 64 bits wide and a uint32 is 32 bits wide.  Both are kept in
\* digits of base 2^16: an int is a sign and the magnitude
\* hi * 2^32 + d1 * 2^16 + d0, a uint32 is d1 * 2^16 + d0.
Word == 2^16

GoInt(neg, hi, d1, d0) == [neg |-> neg, hi |-> hi, d1 |-> d1, d0 |-> d0]

\* the int of a small number
SmallInt(n) == IF n < 0 THEN GoInt(TRUE, 0, 0, 0 - n) ELSE GoInt(FALSE, 0, 0, n)

\* pageInt > 0
IsPositive(x) == ~x.neg /\ (x.hi > 0 \/ x.d1 > 0 \/ x.d0 > 0)

\* perPageInt > n, for a constant 0 <= n < 2^16
GreaterThan(x, n) == ~x.neg /\ (x.hi > 0 \/ x.d1 > 0 \/ x.d0 > n)

\* the uint32 of a constant 0 <= n < 2^16
U32(n) == [d1 |-> 0, d0 |-> n]

\* the conversion uint32(x): the low 32 bits of the two's complement of x
Uint32(x) ==
  IF ~x.neg THEN [d1 |-> x.d1, d0 |-> x.d0]
  ELSE [d1 |-> (Word - 1 - x.d1 + (IF x.d0 = 0 THEN 1 ELSE 0)) % Word,
        d0 |-> (Word - x.d0) % Word]

\* The strings ParsePagination is called on: the empty string (what
\* url.Values.Get returns for a missing key too), a string that is not a
\* decimal number, the decimal form of an int, and a decimal number that does
\* not fit an int.
EmptyString == [kind |-> "empty", val |-> SmallInt(0)]

TextString == [kind |-> "text", val |-> SmallInt(0)]

OutOfRangeString == [kind |-> "range", val |-> SmallInt(0)]

Itoa(x) == [kind |-> "int", val |-> x]

\* strconv.Atoi: the int and whether there was an error
Atoi(s) == [val |-> IF s.kind = "int" THEN s.val ELSE SmallInt(0),
            err |-> s.kind # "int"]

\* url.Values.Get
Get(queryParams, key) == queryParams[key]

DefaultPage == 1

DefaultPerPage == 20

maxPerPage == 1000

\* the ints the argument strings are drawn from
SmallValues == {-1, 0, 1, 2, 20, 1000, 1001}

WideValues ==
  {GoInt(FALSE, 0, 1, 0), GoInt(FALSE, 0, Word - 1, Word - 1),
   GoInt(FALSE, 1, 0, 0), GoInt(FALSE, 1, 0, 7), GoInt(TRUE, 1, 0, 0)}

Strings ==
  {EmptyString, TextString, OutOfRangeString}
    \cup {Itoa(SmallInt(n)) : n \in SmallValues}
    \cup {Itoa(x) : x \in WideValues}

QueryParams == [{"page", "per_page"} -> Strings]

\* the per_page part, the same in both branches
ParsePerPage(queryParams) ==
  LET perPageStr == Get(queryParams, "per_page")
      parsed     == Atoi(perPageStr)
  IN  IF perPageStr # EmptyString /\ ~parsed.err /\ IsPositive(parsed.val)
      THEN IF GreaterThan(parsed.val, maxPerPage)
           THEN U32(maxPerPage)
           ELSE Uint32(parsed.val)
      ELSE U32(DefaultPerPage)

ParsePagination(queryParams, cursor) ==
  IF cursor # EmptyString
  THEN LET parsed == Atoi(cursor)
       IN  [page    |-> IF ~parsed.err /\ IsPositive(parsed.val)
                        THEN Uint32(parsed.val)
                        ELSE U32(DefaultPage),
            perPage |-> ParsePerPage(queryParams)]
  ELSE LET pageStr == Get(queryParams, "page")
           parsed  == Atoi(pageStr)
       IN  [page    |-> IF pageStr # EmptyString /\ ~parsed.err
                           /\ IsPositive(parsed.val)
                        THEN Uint32(parsed.val)
                        ELSE U32(DefaultPage),
            perPage |-> ParsePerPage(queryParams)]

\* ------------------------------------------------------------------------
\* State
\* ------------------------------------------------------------------------

VARIABLES
  stdin,            \* the input stream: [lines, end], fixed by Init
  pos,              \* number of lines the scanner has consumed
  pc,               \* control point of every goroutine
  rcur,             \* reader: the decoded request to hand off
  readChanClosed,   \* readChan has been closed
  writeChanClosed,  \* writeChan has been closed
  cancelled,        \* shutdownCtx is done (cancelFunc was called)
  wg,               \* the sync.WaitGroup counter
  hresp,            \* Response a caller goroutine is sending on writeChan
  wbytes,           \* writer: respBytes of the Response being written
  bw,               \* writer: its bufio.Writer and the output stream
  panicked,         \* the process died of a run-time panic
  delivered,        \* history: Requests received from readChan, in order
  wrecv,            \* history: Responses the writer received, in order
  nsub,             \* number of Responses the extra caller has submitted
  hist,             \* history: what has happened so far (see NoHistory)
  pagination        \* a ParsePagination call: its arguments and what it returned

vars == <<stdin, pos, pc, rcur, readChanClosed, writeChanClosed, cancelled, wg,
          hresp, wbytes, bw, panicked, delivered, wrecv, nsub, hist, pagination>>

Procs == {"main", "reader", "writer", "handler", "caller"}

\* the threads that may call Close (and send on writeChan)
CloseCallers == {"handler", "caller"}

TypeOK ==
  /\ Len(stdin.lines) <= MaxLines /\ stdin.end \in Endings
  /\ pos \in 0 .. Len(stdin.lines)
  /\ pc \in [Procs -> STRING]
  /\ readChanClosed \in BOOLEAN /\ writeChanClosed \in BOOLEAN
  /\ cancelled \in BOOLEAN /\ panicked \in BOOLEAN
  /\ wg \in 0 .. 2
  /\ nsub \in 0 .. MaxSubmits
  /\ pagination.called \in BOOLEAN
  /\ hist \in [scanEnded : BOOLEAN, callerClosed : BOOLEAN, lateClose : BOOLEAN,
               panic : {"none", "send on closed channel", "close of closed channel"},
               panicBy : Procs \cup {"none"}]

\* what the history records at the start: scanner.Scan() has not returned
\* false, the caller has not closed writeChan itself, no Close was invoked
\* after another Close had returned, and nothing has panicked
NoHistory ==
  [scanEnded |-> FALSE, callerClosed |-> FALSE, lateClose |-> FALSE,
   panic |-> "none", panicBy |-> "none"]

\* NewStdioServer: unbuffered channels, context not cancelled, WaitGroup 0.
\* The threads in absent do not exist in the run.
InitTransport(L, E, absent) ==
  /\ stdin \in [lines : SeqsUpTo(L, MaxLines), end : E]
  /\ pos = 0
  /\ pc = [p \in Procs |->
             IF p = "main" THEN "start"
             ELSE IF p \in absent THEN "off"
             ELSE "unstarted"]
  /\ rcur = ZeroRequest
  /\ readChanClosed = FALSE
  /\ writeChanClosed = FALSE
  /\ cancelled = FALSE
  /\ wg = 0
  /\ hresp = [p \in {"handler", "caller"} |-> NoResponse]
  /\ wbytes = <<>>
  /\ bw = [buf |-> <<>>, err |-> FALSE, out |-> <<>>]
  /\ panicked = FALSE
  /\ delivered = <<>>
  /\ wrecv = <<>>
  /\ nsub = 0
  /\ hist = NoHistory

\* no ParsePagination call is under way
NoPagination ==
  [called |-> FALSE, cursor |-> EmptyString,
   queryParams |-> [k \in {"page", "per_page"} |-> EmptyString],
   page |-> U32(0), perPage |-> U32(0)]

InitOn(L, E, absent) == InitTransport(L, E, absent) /\ pagination = NoPagination

\* a call of ParsePagination on any arguments, the transport not started
InitPagination ==
  /\ InitTransport({}, {"eof"}, Procs \ {"main"})
  /\ pagination \in [called : {FALSE}, cursor : Strings, queryParams : QueryParams,
                     page : {U32(0)}, perPage : {U32(0)}]

InitWith(absent) ==
  InitOn(IF "caller" \in absent THEN Lines ELSE FewLines, Endings, absent)

Init == InitWith({})

InitDriver == InitWith({"caller"})

\* a caller that started the transport and never receives from readChan
InitStalled == InitWith({"handler"})

\* the driver on an input of routed methods that ends with end-of-stream
InitRouting == InitOn(RoutedLines, {"eof"}, {"caller"})

Goto(p, l) == pc' = [pc EXCEPT ![p] = l]

\* ------------------------------------------------------------------------
\* main: Start, spawn the handler goroutine, Wait
\* ------------------------------------------------------------------------

\* server.Start(ctx): wg.Add(2) and the two goroutines begin; main then
\* starts its handler goroutine and goes on to server.Wait()
Start ==
  /\ ~panicked
  /\ pc["main"] = "start"
  /\ wg' = wg + 2
  /\ pc' = [p \in Procs |->
              CASE p = "main" -> "waitdone"
                [] p = "reader" -> "scan"
                [] p = "writer" -> "select"
                [] p = "handler" -> IF pc[p] = "off" THEN "off" ELSE "recv"
                [] OTHER -> IF pc[p] = "unstarted" THEN "idle" ELSE pc[p]]
  /\ UNCHANGED <<stdin, pos, rcur, readChanClosed, writeChanClosed, cancelled,
                 hresp, wbytes, bw, panicked, delivered, wrecv, nsub, hist,
                 pagination>>

\* StdioServer.Wait, first half: <-s.shutdownCtx.Done()
WaitDone(p) ==
  /\ ~panicked
  /\ pc[p] = "waitdone"
  /\ cancelled
  /\ Goto(p, "waitwg")
  /\ UNCHANGED <<stdin, pos, rcur, readChanClosed, writeChanClosed, cancelled, wg,
                 hresp, wbytes, bw, panicked, delivered, wrecv, nsub, hist,
                 pagination>>

\* (variant) a Wait that does not wait for the WaitGroup
WaitWgNoBarrier(p) ==
  /\ ~panicked
  /\ pc[p] = "waitwg"
  /\ Goto(p, IF p = "main" THEN "returned" ELSE "closechan")
  /\ UNCHANGED <<stdin, pos, rcur, readChanClosed, writeChanClosed, cancelled, wg,
                 hresp, wbytes, bw, panicked, delivered, wrecv, nsub, hist,
                 pagination>>

\* StdioServer.Wait, second half: s.wg.Wait().  In main, Wait then returns;
\* in Close, close(s.writeChan) is next.
WaitWg(p) ==
  /\ ~panicked
  /\ pc[p] = "waitwg"
  /\ wg = 0
  /\ Goto(p, IF p = "main" THEN "returned" ELSE "closechan")
  /\ UNCHANGED <<stdin, pos, rcur, readChanClosed, writeChanClosed, cancelled, wg,
                 hresp, wbytes, bw, panicked, delivered, wrecv, nsub, hist,
                 pagination>>

\* ------------------------------------------------------------------------
\* Reader goroutine
\* ------------------------------------------------------------------------

\* (variant) a reader that leaves the scan loop on a line that fails to
\* decode
ReaderScanStopsOnError ==
  /\ ~panicked
  /\ pc["reader"] = "scan"
  /\ IF pos < Len(stdin.lines)
     THEN LET line == stdin.lines[pos + 1]
              u == Unmarshal(line)
          IN  /\ pos' = pos + 1
              /\ IF line.kind = "toolong"
                 THEN Goto("reader", "afterloop") /\ UNCHANGED rcur
                 ELSE IF cancelled
                 THEN Goto("reader", "closing") /\ UNCHANGED rcur
                 ELSE IF u.err
                 THEN Goto("reader", "afterloop") /\ UNCHANGED rcur
                 ELSE Goto("reader", "send") /\ rcur' = u.req
     ELSE /\ stdin.end \in {"eof", "err"}
          /\ Goto("reader", "afterloop")
          /\ UNCHANGED <<pos, rcur>>
  /\ hist' = [hist EXCEPT !.scanEnded = @ \/ pc'["reader"] = "afterloop"]
  /\ UNCHANGED <<stdin, readChanClosed, writeChanClosed, cancelled, wg,
                 hresp, wbytes, bw, panicked, delivered, wrecv, nsub,
                 pagination>>

\* One turn of the scan loop up to the hand-off.  scanner.Scan() gives the
\* next line, or false at end-of-stream, on a read error and on a line
\* longer than the scanner's buffer (ErrTooLong); on an open stream with no
\* line left it blocks.  Then select { case <-Done: return; default: },
\* then json.Unmarshal: a line that fails to decode is skipped.
ReaderScan ==
  /\ ~panicked
  /\ pc["reader"] = "scan"
  /\ IF pos < Len(stdin.lines)
     THEN LET line == stdin.lines[pos + 1]
              u == Unmarshal(line)
          IN  /\ pos' = pos + 1
              /\ IF line.kind = "toolong"
                 THEN Goto("reader", "afterloop") /\ UNCHANGED rcur
                 ELSE IF cancelled
                 THEN Goto("reader", "closing") /\ UNCHANGED rcur
                 ELSE IF u.err
                 THEN Goto("reader", "scan") /\ UNCHANGED rcur
                 ELSE Goto("reader", "send") /\ rcur' = u.req
     ELSE /\ stdin.end \in {"eof", "err"}
          /\ Goto("reader", "afterloop")
          /\ UNCHANGED <<pos, rcur>>
  /\ hist' = [hist EXCEPT !.scanEnded = @ \/ pc'["reader"] = "afterloop"]
  /\ UNCHANGED <<stdin, readChanClosed, writeChanClosed, cancelled, wg,
                 hresp, wbytes, bw, panicked, delivered, wrecv, nsub,
                 pagination>>

\* case s.readChan <- request, meeting the handler's range receive; the
\* handler then runs HandleRequest and has a Response to send, or none
Deliver ==
  /\ ~panicked
  /\ pc["reader"] = "send"
  /\ pc["handler"] = "recv"
  /\ \E o \in Outcomes :
       LET resp == HandleRequestIn(rcur, o)
       IN  /\ hresp' = [hresp EXCEPT !["handler"] = resp]
           /\ pc' = [pc EXCEPT !["reader"] = "scan",
                               !["handler"] = IF resp = NoResponse THEN "recv" ELSE "send"]
  /\ delivered' = Append(delivered, rcur)
  /\ UNCHANGED <<stdin, pos, rcur, readChanClosed, writeChanClosed, cancelled, wg,
                 wbytes, bw, panicked, wrecv, nsub, hist,
                 pagination>>

\* (variant) a hand-off that is a plain send, s.readChan <- request, with
\* no case for the cancellation
ReaderPlainSend ==
  /\ ~panicked
  /\ pc["reader"] = "send"
  /\ FALSE
  /\ UNCHANGED vars

\* case <-s.shutdownCtx.Done(): return  (hand-off abandoned)
ReaderAbandon ==
  /\ ~panicked
  /\ pc["reader"] = "send"
  /\ cancelled
  /\ Goto("reader", "closing")
  /\ UNCHANGED <<stdin, pos, rcur, readChanClosed, writeChanClosed, cancelled, wg,
                 hresp, wbytes, bw, panicked, delivered, wrecv, nsub, hist,
                 pagination>>

\* (variant) a reader that ends without s.cancelFunc()
ReaderAfterLoopNoCancel ==
  /\ ~panicked
  /\ pc["reader"] = "afterloop"
  /\ Goto("reader", "closing")
  /\ UNCHANGED <<stdin, pos, rcur, readChanClosed, writeChanClosed, cancelled, wg,
                 hresp, wbytes, bw, panicked, delivered, wrecv, nsub, hist,
                 pagination>>

\* after the scan loop: scanner.Err() is ignored, s.cancelFunc()
ReaderAfterLoop ==
  /\ ~panicked
  /\ pc["reader"] = "afterloop"
  /\ cancelled' = TRUE
  /\ Goto("reader", "closing")
  /\ UNCHANGED <<stdin, pos, rcur, readChanClosed, writeChanClosed, wg,
                 hresp, wbytes, bw, panicked, delivered, wrecv, nsub, hist,
                 pagination>>

\* (variant) a reader that exits without closing readChan
ReaderExitsWithoutClose ==
  /\ ~panicked
  /\ pc["reader"] = "closing"
  /\ Goto("reader", "wgdone")
  /\ UNCHANGED <<stdin, pos, rcur, readChanClosed, writeChanClosed, cancelled, wg,
                 hresp, wbytes, bw, panicked, delivered, wrecv, nsub, hist,
                 pagination>>

\* defer close(s.readChan)
ReaderCloseChan ==
  /\ ~panicked
  /\ pc["reader"] = "closing"
  /\ readChanClosed' = TRUE
  /\ Goto("reader", "wgdone")
  /\ UNCHANGED <<stdin, pos, rcur, writeChanClosed, cancelled, wg,
                 hresp, wbytes, bw, panicked, delivered, wrecv, nsub, hist,
                 pagination>>

\* a goroutine that returns without signalling the WaitGroup
WgDoneSkipped(p) ==
  /\ ~panicked
  /\ pc[p] = "wgdone"
  /\ Goto(p, "done")
  /\ UNCHANGED <<stdin, pos, rcur, readChanClosed, writeChanClosed, cancelled, wg,
                 hresp, wbytes, bw, panicked, delivered, wrecv, nsub, hist,
                 pagination>>

\* defer s.wg.Done() of either goroutine
WgDone(p) ==
  /\ ~panicked
  /\ pc[p] = "wgdone"
  /\ wg' = wg - 1
  /\ Goto(p, "done")
  /\ UNCHANGED <<stdin, pos, rcur, readChanClosed, writeChanClosed, cancelled,
                 hresp, wbytes, bw, panicked, delivered, wrecv, nsub, hist,
                 pagination>>

Reader ==
  \/ ReaderScan \/ ReaderAbandon \/ ReaderAfterLoop
  \/ ReaderCloseChan \/ WgDone("reader")

\* ------------------------------------------------------------------------
\* Writer goroutine
\* ------------------------------------------------------------------------

\* case <-s.shutdownCtx.Done(): _ = writer.Flush(); return
WriterShutdown ==
  /\ ~panicked
  /\ pc["writer"] = "select"
  /\ cancelled
  /\ bw' \in BufFlush(bw)
  /\ Goto("writer", "wgdone")
  /\ UNCHANGED <<stdin, pos, rcur, readChanClosed, writeChanClosed, cancelled, wg,
                 hresp, wbytes, panicked, delivered, wrecv, nsub, hist,
                 pagination>>

\* (variant) a writer that also fires the cancellation when it finds
\* writeChan closed
WriterChanClosedCancels ==
  /\ ~panicked
  /\ pc["writer"] = "select"
  /\ writeChanClosed
  /\ bw' \in BufFlush(bw)
  /\ cancelled' = TRUE
  /\ Goto("writer", "wgdone")
  /\ UNCHANGED <<stdin, pos, rcur, readChanClosed, writeChanClosed, wg,
                 hresp, wbytes, panicked, delivered, wrecv, nsub, hist,
                 pagination>>

\* case response, ok := <-s.writeChan with ok false: flush and return
WriterChanClosed ==
  /\ ~panicked
  /\ pc["writer"] = "select"
  /\ writeChanClosed
  /\ bw' \in BufFlush(bw)
  /\ Goto("writer", "wgdone")
  /\ UNCHANGED <<stdin, pos, rcur, readChanClosed, writeChanClosed, cancelled, wg,
                 hresp, wbytes, panicked, delivered, wrecv, nsub, hist,
                 pagination>>

\* (variant) a writer that returns when json.Marshal fails
WriterRecvStopsOnError(s) ==
  /\ ~panicked
  /\ pc["writer"] = "select"
  /\ pc[s] = "send"
  /\ ~writeChanClosed
  /\ LET m == Marshal(hresp[s])
     IN  /\ wbytes' = m.bytes
         /\ pc' = [pc EXCEPT ![s] = IF s = "handler" THEN "recv" ELSE "idle",
                             !["writer"] = IF m.err THEN "wgdone" ELSE "write"]
  /\ wrecv' = Append(wrecv, hresp[s])
  /\ hresp' = [hresp EXCEPT ![s] = NoResponse]
  /\ UNCHANGED <<stdin, pos, rcur, readChanClosed, writeChanClosed, cancelled, wg,
                 bw, panicked, delivered, nsub, hist,
                 pagination>>

\* case response := <-s.writeChan, meeting the send of caller s, then
\* json.Marshal: an unencodable Response is skipped
WriterRecv(s) ==
  /\ ~panicked
  /\ pc["writer"] = "select"
  /\ pc[s] = "send"
  /\ ~writeChanClosed
  /\ LET m == Marshal(hresp[s])
     IN  /\ wbytes' = m.bytes
         /\ pc' = [pc EXCEPT ![s] = IF s = "handler" THEN "recv" ELSE "idle",
                             !["writer"] = IF m.err THEN "select" ELSE "write"]
  /\ wrecv' = Append(wrecv, hresp[s])
  /\ hresp' = [hresp EXCEPT ![s] = NoResponse]
  /\ UNCHANGED <<stdin, pos, rcur, readChanClosed, writeChanClosed, cancelled, wg,
                 bw, panicked, delivered, nsub, hist,
                 pagination>>

\* (variant) a write step that goes on to the next step after an error
WriteStepIgnoresError(from, results, next) ==
  /\ ~panicked
  /\ pc["writer"] = from
  /\ bw' \in results
  /\ Goto("writer", next)
  /\ UNCHANGED <<stdin, pos, rcur, readChanClosed, writeChanClosed, cancelled, wg,
                 hresp, wbytes, panicked, delivered, wrecv, nsub, hist,
                 pagination>>

\* a write step of the writer: on an error s.cancelFunc() and return,
\* otherwise on to the next step
WriteStep(from, results, next) ==
  /\ ~panicked
  /\ pc["writer"] = from
  /\ bw' \in results
  /\ IF bw'.err
     THEN cancelled' = TRUE /\ Goto("writer", "wgdone")
     ELSE UNCHANGED cancelled /\ Goto("writer", next)
  /\ UNCHANGED <<stdin, pos, rcur, readChanClosed, writeChanClosed, wg,
                 hresp, wbytes, panicked, delivered, wrecv, nsub, hist,
                 pagination>>

\* _, err = writer.Write(respBytes)
WriterWrite == WriteStep("write", BufWrite(bw, wbytes), "newline")

\* (variant) a writer that leaves out the newline
WriterNewlineSkipped == WriteStep("newline", {bw}, "flush")

\* _, err = writer.WriteString("\n")
WriterNewline == WriteStep("newline", BufWrite(bw, Newline), "flush")

\* (variant) a writer that does not flush after a Response
WriterFlushSkipped == WriteStep("flush", {bw}, "select")

\* err = writer.Flush()
WriterFlush == WriteStep("flush", BufFlush(bw), "select")

Writer ==
  \/ WriterShutdown
  \/ WriterWrite \/ WriterNewline \/ WriterFlush \/ WgDone("writer")

\* ------------------------------------------------------------------------
\* Callers: the handler goroutine of main, and Close
\* ------------------------------------------------------------------------

\* the range over ReadChannel ends when readChan is closed; Close is next
HandlerRangeEnd ==
  /\ ~panicked
  /\ pc["handler"] = "recv"
  /\ readChanClosed
  /\ Goto("handler", "cancel")
  /\ UNCHANGED <<stdin, pos, rcur, readChanClosed, writeChanClosed, cancelled, wg,
                 hresp, wbytes, bw, panicked, delivered, wrecv, nsub, hist,
                 pagination>>

\* a send on writeChan that finds the channel closed panics
SendOnClosed(s) ==
  /\ ~panicked
  /\ pc[s] = "send"
  /\ writeChanClosed
  /\ panicked' = TRUE
  /\ hist' = [hist EXCEPT !.panic = "send on closed channel", !.panicBy = s]
  /\ UNCHANGED <<stdin, pos, pc, rcur, readChanClosed, writeChanClosed, cancelled, wg,
                 hresp, wbytes, bw, delivered, wrecv, nsub,
                 pagination>>

\* where a thread enters Close: the handler after its range loop, the
\* other caller whenever it is not sending
AtCloseEntry(p) ==
  \/ pc[p] = "cancel"
  \/ p = "caller" /\ pc[p] \in {"idle", "closedw"}

\* (variant) a Close that closes writeChan without waiting
CloseCancelThenClose(p) ==
  /\ ~panicked
  /\ AtCloseEntry(p)
  /\ cancelled' = TRUE
  /\ Goto(p, "closechan")
  /\ hist' = [hist EXCEPT !.lateClose = @ \/ \E q \in CloseCallers : pc[q] = "returned"]
  /\ UNCHANGED <<stdin, pos, rcur, readChanClosed, writeChanClosed, wg,
                 hresp, wbytes, bw, panicked, delivered, wrecv, nsub,
                 pagination>>

\* StdioServer.Close: s.cancelFunc(), and the <-s.shutdownCtx.Done() of
\* its Wait, which the cancellation just made ready
CloseCancel(p) ==
  /\ ~panicked
  /\ AtCloseEntry(p)
  /\ cancelled' = TRUE
  /\ Goto(p, "waitwg")
  /\ hist' = [hist EXCEPT !.lateClose = @ \/ \E q \in CloseCallers : pc[q] = "returned"]
  /\ UNCHANGED <<stdin, pos, rcur, readChanClosed, writeChanClosed, wg,
                 hresp, wbytes, bw, panicked, delivered, wrecv, nsub,
                 pagination>>

\* (variant) a caller that invokes Close once more when Close returns
CloseChanRepeats(p) ==
  /\ ~panicked
  /\ pc[p] = "closechan"
  /\ IF writeChanClosed
     THEN /\ panicked' = TRUE
          /\ hist' = [hist EXCEPT !.panic = "close of closed channel", !.panicBy = p]
          /\ UNCHANGED <<pc, writeChanClosed>>
     ELSE /\ writeChanClosed' = TRUE
          /\ Goto(p, "cancel")
          /\ UNCHANGED <<panicked, hist>>
  /\ UNCHANGED <<stdin, pos, rcur, readChanClosed, cancelled, wg,
                 hresp, wbytes, bw, delivered, wrecv, nsub,
                 pagination>>

\* StdioServer.Close: close(s.writeChan); return nil.  Closing a closed
\* channel panics.
CloseChan(p) ==
  /\ ~panicked
  /\ pc[p] = "closechan"
  /\ IF writeChanClosed
     THEN /\ panicked' = TRUE
          /\ hist' = [hist EXCEPT !.panic = "close of closed channel", !.panicBy = p]
          /\ UNCHANGED <<pc, writeChanClosed>>
     ELSE /\ writeChanClosed' = TRUE
          /\ Goto(p, "returned")
          /\ UNCHANGED <<panicked, hist>>
  /\ UNCHANGED <<stdin, pos, rcur, readChanClosed, cancelled, wg,
                 hresp, wbytes, bw, delivered, wrecv, nsub,
                 pagination>>

Close(p) == CloseCancel(p) \/ WaitWg(p) \/ CloseChan(p)

Handler == HandlerRangeEnd \/ WriterRecv("handler") \/ Close("handler")

Main == Start \/ WaitDone("main") \/ WaitWg("main")

\* ------------------------------------------------------------------------
\* Another caller of the public API (general specification only)
\* ------------------------------------------------------------------------

\* Responses the extra caller submits: one encodable, one not
SubmitResponses ==
  { Response(NumId(7), "nil", "InternalError"), Response(NilId, "chan", "nil") }

\* the caller starts server.WriteChannel() <- resp
Submit ==
  /\ ~panicked
  /\ pc["caller"] = "idle"
  /\ nsub < MaxSubmits
  /\ nsub' = nsub + 1
  /\ \E resp \in SubmitResponses : hresp' = [hresp EXCEPT !["caller"] = resp]
  /\ Goto("caller", "send")
  /\ UNCHANGED <<stdin, pos, rcur, readChanClosed, writeChanClosed, cancelled, wg,
                 wbytes, bw, panicked, delivered, wrecv, hist,
                 pagination>>

\* the caller closes the outbound channel: it has no more to send
CallerCloseWriteChan ==
  /\ ~panicked
  /\ pc["caller"] = "idle"
  /\ IF writeChanClosed
     THEN /\ panicked' = TRUE
          /\ hist' = [hist EXCEPT !.panic = "close of closed channel", !.panicBy = "caller"]
          /\ UNCHANGED <<pc, writeChanClosed>>
     ELSE /\ writeChanClosed' = TRUE
          /\ hist' = [hist EXCEPT !.callerClosed = TRUE]
          /\ Goto("caller", "closedw")
          /\ UNCHANGED panicked
  /\ UNCHANGED <<stdin, pos, rcur, readChanClosed, cancelled, wg,
                 hresp, wbytes, bw, delivered, wrecv, nsub,
                 pagination>>

Caller ==
  \/ Submit \/ CallerCloseWriteChan
  \/ WriterRecv("caller") \/ SendOnClosed("caller")
  \/ Close("caller")

\* ------------------------------------------------------------------------
\* Specifications
\* ------------------------------------------------------------------------

\* The reference driver alone: main and its handler goroutine.  There
\* writeChan is closed by the handler's Close only, after its last send and
\* after the writer has gone, so the writer's channel-closed branch and a
\* send on the closed channel have no state to be taken in.
NextDriver == Main \/ Reader \/ Writer \/ Deliver \/ Handler

DriverSpec == InitDriver /\ [][NextDriver]_vars

\* the transport with the driver of main and the extra caller
Next == NextDriver \/ WriterChanClosed \/ SendOnClosed("handler") \/ Caller

Spec == Init /\ [][Next]_vars

\* the goroutines take their steps (the Go scheduler starves none of
\* them); which ready case a select takes, and whether a write succeeds,
\* stays free
FairDriverSpec ==
  /\ DriverSpec
  /\ WF_vars(Main) /\ WF_vars(Reader) /\ WF_vars(Writer)
  /\ WF_vars(Deliver) /\ WF_vars(Handler)

\* The transport under a caller that never receives from readChan: it may
\* submit Responses and call Close.
NextStalled ==
  \/ Main \/ Reader \/ Writer
  \/ Submit \/ WriterRecv("caller") \/ Close("caller")

\* the reference driver on the routed methods
RoutingSpec == InitRouting /\ [][NextDriver]_vars

StalledSpec == InitStalled /\ [][NextStalled]_vars

FairStalledSpec ==
  /\ StalledSpec
  /\ WF_vars(Main) /\ WF_vars(Reader) /\ WF_vars(Writer)

\* a call page, perPage := ParsePagination(queryParams, cursor, logger)
CallParsePagination ==
  /\ ~pagination.called
  /\ LET r == ParsePagination(pagination.queryParams, pagination.cursor)
     IN  pagination' = [pagination EXCEPT !.called = TRUE,
                                          !.page = r.page,
                                          !.perPage = r.perPage]
  /\ UNCHANGED <<stdin, pos, pc, rcur, readChanClosed, writeChanClosed, cancelled, wg,
                 hresp, wbytes, bw, panicked, delivered, wrecv, nsub, hist>>

PaginationSpec == InitPagination /\ [][CallParsePagination]_vars

\* ------------------------------------------------------------------------
\* Notions used by the properties
\* ------------------------------------------------------------------------

IsPrefix(a, b) == Len(a) <= Len(b) /\ SubSeq(b, 1, Len(a)) = a

\* a line is well-formed when it decodes as a Request
IsWellFormed(line) == ~Unmarshal(line).err

WellFormedLines == SelectSeq(stdin.lines, IsWellFormed)

\* the Requests decoded from the well-formed ones of the first n lines
DecodedUpTo(n) ==
  LET wf == SelectSeq(SubSeq(stdin.lines, 1, n), IsWellFormed)
  IN  [i \in 1 .. Len(wf) |-> Unmarshal(wf[i]).req]

IsEncodable(resp) == ~Marshal(resp).err

Encodable(rs) == SelectSeq(rs, IsEncodable)

\* the output the Responses rs make: each encoding and one newline
RECURSIVE LinesOf(_)
LinesOf(rs) ==
  IF rs = <<>> THEN <<>>
  ELSE Marshal(Head(rs)).bytes \o Newline \o LinesOf(Tail(rs))

\* the complete (newline-terminated) lines of an output, without newlines
RECURSIVE SplitLines(_, _, _)
SplitLines(s, cur, acc) ==
  IF s = <<>> THEN acc
  ELSE IF <<Head(s)>> = Newline
       THEN SplitLines(Tail(s), <<>>, Append(acc, cur))
       ELSE SplitLines(Tail(s), Append(cur, Head(s)), acc)

OutLines == SplitLines(bw.out, <<>>, <<>>)

HasResponse(req) == HandleRequest(req) # NoResponse

\* the Responses the handler of main produces for the Requests rs
ResponsesTo(rs) ==
  LET answered == SelectSeq(rs, HasResponse)
  IN  [i \in 1 .. Len(answered) |-> HandleRequest(answered[i])]

Terminated(p) == pc[p] = "done"

\* ------------------------------------------------------------------------
\* Properties
\* ------------------------------------------------------------------------

\* C1: the Requests the caller received are, in order, the first
\* well-formed lines of the input, each with the id and the method of its
\* line.
C1_RequestsAreTheLines ==
  /\ Len(delivered) <= Len(WellFormedLines)
  /\ \A i \in 1 .. Len(delivered) :
       /\ delivered[i].id = WellFormedLines[i].id
       /\ delivered[i].method = WellFormedLines[i].method.segs

\* C2 (as a final result): on an input that ends with end-of-stream, when
\* Wait has returned in main and no write has failed, the output holds the
\* Response of every Request that was delivered to the handler and has one.
C2_NoResponseLost ==
  (stdin.end = "eof" /\ pc["main"] = "returned" /\ ~bw.err)
    => bw.out = LinesOf(ResponsesTo(delivered))

\* what is left to write of the Response the writer is working on
PendingBytes ==
  CASE pc["writer"] = "write"   -> wbytes \o Newline
    [] pc["writer"] = "newline" -> Newline
    [] OTHER                    -> <<>>

\* C3: while no write step has failed, the output stream, the buffer and
\* what is left of the Response in hand make up exactly the encodings of
\* the encodable Responses received, each followed by one newline; all
\* Responses before the one in hand are on the output stream in full, and
\* between two Responses nothing is left in hand.
C3_OutputIsTheEncodings ==
  ~bw.err =>
    LET enc == Encodable(wrecv)
    IN  /\ bw.out \o bw.buf \o PendingBytes = LinesOf(enc)
        /\ pc["writer"] \in {"write", "newline", "flush"}
             => IsPrefix(LinesOf(SubSeq(enc, 1, Len(enc) - 1)), bw.out)
        /\ pc["writer"] \notin {"write", "newline", "flush"}
             => bw.out = LinesOf(enc)

\* two Responses have been written and an unencodable one was received
C3_Witness ==
  /\ ~bw.err
  /\ pc["writer"] = "select"
  /\ Len(Encodable(wrecv)) >= 2
  /\ Len(wrecv) > Len(Encodable(wrecv))
  /\ bw.out = LinesOf(Encodable(wrecv))

\* C4: the complete lines of the output are, in order, the encodings of
\* the Responses in the order their sends on writeChan completed (a send
\* on the unbuffered channel completes when the writer receives it).
C4_OutputInSendOrder ==
  LET enc == Encodable(wrecv)
  IN  /\ Len(OutLines) <= Len(enc)
      /\ \A i \in 1 .. Len(OutLines) : OutLines[i] = Marshal(enc[i]).bytes

\* the lines of two different Responses are on the output
C4_Witness ==
  /\ Len(OutLines) >= 2
  /\ OutLines[1] # OutLines[2]

\* the reader decodes a line that is not a Request
MalformedStep ==
  /\ pc["reader"] = "scan"
  /\ pos < Len(stdin.lines)
  /\ pos' = pos + 1
  /\ ~cancelled
  /\ stdin.lines[pos + 1].kind # "toolong"
  /\ Unmarshal(stdin.lines[pos + 1]).err

\* C5: decoding a malformed line delivers nothing, writes nothing, fires
\* no cancellation and leaves the reader scanning; and the Requests handed
\* off are those decoded from the well-formed lines alone: all of them up
\* to the scanner's position while the reader is scanning, and a prefix of
\* them in every state.
C5_MalformedLineDropped ==
  /\ [](/\ IsPrefix(delivered, DecodedUpTo(pos))
        /\ pc["reader"] = "scan" => delivered = DecodedUpTo(pos)
        /\ pc["reader"] = "send" => Append(delivered, rcur) = DecodedUpTo(pos))
  /\ [][MalformedStep =>
          /\ pc'["reader"] = "scan"
          /\ UNCHANGED <<delivered, bw, cancelled, readChanClosed>>]_vars

\* a malformed first line was skipped and the line after it was delivered
C5_Witness ==
  /\ pos = 2
  /\ stdin.lines[1].kind # "toolong" /\ Unmarshal(stdin.lines[1]).err
  /\ delivered = <<Unmarshal(stdin.lines[2]).req>>
  /\ pc["reader"] = "scan"
  /\ ~cancelled

\* C6: once a Close has returned, readChan is closed, the reader and the
\* writer have terminated, and the output stream never changes again.
C6_QuietAfterClose ==
  /\ [](\A p \in CloseCallers :
          pc[p] = "returned" =>
            readChanClosed /\ Terminated("reader") /\ Terminated("writer"))
  /\ [][(\E p \in CloseCallers : pc[p] = "returned") => bw'.out = bw.out]_vars

\* the handler's Close has returned after a Response was written
C6_Witness ==
  /\ pc["handler"] = "returned"
  /\ bw.out # <<>>

\* the scan loop has ended on end-of-stream
AtEndOfStream ==
  /\ pc["reader"] = "afterloop"
  /\ stdin.end = "eof"
  /\ pos = Len(stdin.lines)
  /\ \A i \in 1 .. Len(stdin.lines) : stdin.lines[i].kind # "toolong"

\* C7: when the scan loop ends, the reader's next step fires the
\* cancellation; and after end-of-stream the cancellation has fired,
\* readChan is closed, the writer has exited and Wait has returned in main,
\* eventually, whatever the number of lines.
C7_EndOfStreamShutsDown ==
  /\ [][(pc["reader"] = "afterloop" /\ pc'["reader"] # "afterloop") => cancelled']_vars
  /\ AtEndOfStream ~>
       (cancelled /\ readChanClosed /\ Terminated("writer") /\ pc["main"] = "returned")

\* Wait has returned in main on an input of zero lines, before any Close
C7_Witness ==
  /\ stdin = [lines |-> <<>>, end |-> "eof"]
  /\ pc["main"] = "returned"
  /\ pc["handler"] = "recv"

\* C8: where Wait has returned (in main, or inside Close), the cancellation
\* has fired and the reader and the writer have terminated.
C8_WaitNotEarly ==
  /\ pc["main"] = "returned"
       => cancelled /\ Terminated("reader") /\ Terminated("writer")
  /\ \A p \in CloseCallers :
       pc[p] = "closechan"
         => cancelled /\ Terminated("reader") /\ Terminated("writer")

\* Wait has returned in main after a Request went through
C8_Witness ==
  /\ pc["main"] = "returned"
  /\ Len(delivered) > 0

\* C9: once the cancellation has fired, the reader and the writer terminate
\* and Wait returns.
C9_CancelTerminates ==
  cancelled ~> (Terminated("reader") /\ Terminated("writer") /\ pc["main"] = "returned")

\* C10: a thread inside Close past its first step has fired the
\* cancellation, and the step of Close that closes writeChan is taken only
\* with both goroutines counted out and the writer terminated.
C10_CloseOrder ==
  /\ [](\A p \in CloseCallers :
          pc[p] \in {"waitwg", "closechan", "returned"} => cancelled)
  /\ [][\A p \in CloseCallers :
          (pc[p] = "closechan" /\ pc'[p] = "returned")
            => (writeChanClosed' /\ wg = 0 /\ Terminated("writer"))]_vars

\* the handler's Close has closed writeChan and returned
C10_Witness ==
  /\ pc["handler"] = "returned"
  /\ writeChanClosed
  /\ ~panicked

\* ------------------------------------------------------------------------
\* Close and the outbound channel
\* ------------------------------------------------------------------------

\* writeChan has been closed, and by a Close (not by the caller itself)
ClosedByClose == writeChanClosed /\ ~hist.callerClosed

\* C11: no send on writeChan, pending or started later, ever meets the
\* channel closed by a Close of another thread: whenever a Close has closed
\* writeChan, no thread is at a send on it (where the send would panic).
C11_NoSendOnClosed ==
  \A s \in CloseCallers : ClosedByClose => pc[s] # "send"

\* C12: a Close invoked after an earlier Close has returned causes no
\* failure: it does not close writeChan a second time (which would panic).
C12_SecondCloseHarmless ==
  hist.lateClose => hist.panic # "close of closed channel"

\* C13: a caller that closes writeChan when it has no more to send and
\* then invokes Close gets a clean shutdown: its Close does not fail by
\* closing the closed channel.
C13_ContractThenClose ==
  hist.callerClosed =>
    ~(hist.panic = "close of closed channel" /\ hist.panicBy = "caller")

\* ------------------------------------------------------------------------
\* The cancellation signal
\* ------------------------------------------------------------------------

\* thread p has invoked Close
CloseEntered(p) == pc[p] \in {"waitwg", "closechan", "returned"}

\* C14: the cancellation is one-shot and has exactly three triggers.  In
\* every state where it has fired, a Close has been invoked, or the
\* reader's scan has ended (end-of-stream or a read error), or a write step
\* has failed; each of the three fires it; once fired it stays fired, so
\* firing it again changes nothing.
C14_CancelTriggers ==
  /\ [](cancelled =>
          \/ \E p \in CloseCallers : CloseEntered(p)
          \/ hist.scanEnded
          \/ bw.err)
  /\ [](\A p \in CloseCallers : CloseEntered(p) => cancelled)
  /\ [](hist.scanEnded /\ pc["reader"] # "afterloop" => cancelled)
  /\ [](bw.err => cancelled)
  /\ [][cancelled => cancelled']_vars

\* the signal fired by a failed write alone, then fired again by a Close
C14_Witness ==
  /\ cancelled
  /\ bw.err
  /\ ~hist.scanEnded
  /\ \E p \in CloseCallers : CloseEntered(p)
  /\ Terminated("writer")

\* ------------------------------------------------------------------------
\* The writer and the Responses it has received
\* ------------------------------------------------------------------------

WriterInHand == pc["writer"] \in {"write", "newline", "flush"}

\* the Responses the writer has received and is done with
Handled ==
  SubSeq(wrecv, 1, IF WriterInHand THEN Len(wrecv) - 1 ELSE Len(wrecv))

\* C15 (as stated): every Response whose send has completed and which the
\* writer is done with is on the output as a complete line (payload,
\* newline, flushed), or the cancellation has fired.
C15_WrittenOrCancelled ==
  cancelled \/ Len(OutLines) >= Len(Handled)

\* C15 (amended): every encodable Response whose send has completed and
\* which the writer is done with is on the output in full, in order, or
\* the cancellation has fired.
C15_EncodableWrittenOrCancelled ==
  cancelled \/ IsPrefix(LinesOf(Encodable(Handled)), bw.out)

\* an encodable Response was written and no cancellation fired
C15_Witness ==
  /\ ~cancelled
  /\ ~WriterInHand
  /\ Encodable(Handled) # <<>>
  /\ bw.out = LinesOf(Encodable(Handled))

RecvUnencodable ==
  /\ Len(wrecv') = Len(wrecv) + 1
  /\ ~IsEncodable(wrecv'[Len(wrecv')])

\* C17: a Response that cannot be encoded is dropped, and only it: the
\* step writes no byte, fires no cancellation and leaves the writer at its
\* select; the encodable Responses received, before or after it, are
\* written in full and in order.
C17_UnencodableDropped ==
  /\ [][RecvUnencodable =>
          /\ bw' = bw
          /\ cancelled' = cancelled
          /\ pc'["writer"] = "select"]_vars
  /\ [](~bw.err /\ ~WriterInHand =>
          LET enc == Encodable(wrecv)
          IN  OutLines = [i \in 1 .. Len(enc) |-> Marshal(enc[i]).bytes])

\* an unencodable Response was received, then an encodable one, which is
\* on the output in full
C17_Witness ==
  /\ Len(wrecv) = 2
  /\ ~IsEncodable(wrecv[1])
  /\ IsEncodable(wrecv[2])
  /\ ~cancelled
  /\ pc["writer"] = "select"
  /\ bw.out = Marshal(wrecv[2]).bytes \o Newline

\* ------------------------------------------------------------------------
\* Cancellation at the suspension points
\* ------------------------------------------------------------------------

\* C18: the reader's hand-off is cancellable.  When the cancellation has
\* fired while the reader's send on readChan is pending and the caller
\* never receives, the reader does not block for ever: it abandons the
\* hand-off, closes readChan and terminates.
C18_HandOffCancellable ==
  (pc["reader"] = "send" /\ cancelled)
    ~> (readChanClosed /\ Terminated("reader"))

\* the reader has terminated with a decoded Request never handed off
C18_Witness ==
  /\ rcur # ZeroRequest
  /\ delivered = <<>>
  /\ readChanClosed
  /\ Terminated("reader")

\* C19: once the cancellation has fired the writer stops waiting for
\* Responses: from then on it receives no Response from writeChan, even
\* when a send is pending, and performs no payload write; it only flushes
\* and exits.
C19_NoReceiveAfterCancel ==
  [][cancelled =>
       /\ wrecv' = wrecv
       /\ ~(pc["writer"] = "write" /\ pc'["writer"] # "write")]_vars

\* ------------------------------------------------------------------------
\* HandleRequest and the driver loop
\* ------------------------------------------------------------------------

\* the method starts with "notifications/"
StartsWithNotifications(req) ==
  Len(req.method) >= 2 /\ Head(req.method) = "notifications"

NotANotification(req) == ~StartsWithNotifications(req)

\* the Responses the handler goroutine has submitted on writeChan, the
\* one whose send is pending included
Submitted ==
  wrecv \o (IF pc["handler"] = "send" THEN <<hresp["handler"]>> ELSE <<>>)

\* C20: the driver loop submits nothing for a notification and exactly one
\* Response for any other Request, known method or not, and that
\* Response bears the id of the Request.
C20_OneResponsePerRequest ==
  LET asked == SelectSeq(delivered, NotANotification)
  IN  /\ Len(Submitted) = Len(asked)
      /\ \A i \in 1 .. Len(asked) :
            /\ Submitted[i] # NoResponse
            /\ Submitted[i].id = asked[i].id

\* a notification was delivered, then a tools/call Request, and one
\* Response was made, for the latter
C20_Witness ==
  /\ Len(delivered) = 2
  /\ delivered[1].method = <<"notifications", "something">>
  /\ delivered[2].method = <<"tools", "call">>
  /\ Len(Submitted) = 1
  /\ Submitted[1].id = StrId(3)
  /\ Submitted[1].result = "value"

\* a Response with a result and no error, or an error and no result
ExactlyOneOf(resp) == (resp.error # "nil") <=> (resp.result = "nil")

\* C21: every Response HandleRequest returns carries exactly one of result
\* and error: so do the Responses the handler has submitted, and so does
\* the Response to every delivered Request under every outcome of the
\* called tool or resource read.
C21_ResultXorError ==
  /\ \A i \in 1 .. Len(Submitted) : ExactlyOneOf(Submitted[i])
  /\ \A i \in 1 .. Len(delivered) : \A o \in Outcomes :
        LET resp == HandleRequestIn(delivered[i], o)
        IN  resp # NoResponse => ExactlyOneOf(resp)

\* a tools/call Request answered with an error, then a resources/read
\* Request answered with a result
C21_Witness ==
  /\ Len(delivered) = 2 /\ Len(Submitted) = 2
  /\ delivered[1].method = <<"tools", "call">>
  /\ delivered[2].method = <<"resources", "read">>
  /\ Submitted[1].error = "ToolError" /\ Submitted[1].result = "nil"
  /\ Submitted[2].error = "nil" /\ Submitted[2].result = "value"

\* the writer leaves its select for its exit
WriterExits == pc["writer"] = "select" /\ pc'["writer"] = "wgdone"

\* C22: when the caller closes writeChan and no cancellation has fired,
\* the writer flushes and exits normally, firing no cancellation; while no
\* cancellation has fired the reader keeps running and Wait stays blocked.
C22_ChannelCloseIsQuiet ==
  /\ [][WriterExits /\ ~cancelled =>
          /\ writeChanClosed
          /\ ~cancelled'
          /\ ~bw'.err /\ bw'.buf = <<>>]_vars
  /\ [](writeChanClosed /\ ~cancelled =>
          /\ pc["reader"] \in {"scan", "send", "afterloop"}
          /\ pc["main"] = "waitdone")

\* the writer has gone after the caller closed writeChan, no cancellation
\* has fired, the reader has handed a Request on and main is in Wait
C22_Witness ==
  /\ hist.callerClosed
  /\ Terminated("writer")
  /\ ~cancelled /\ ~panicked
  /\ delivered # <<>>
  /\ pc["reader"] = "scan"
  /\ pc["main"] = "waitdone"

\* ------------------------------------------------------------------------
\* The reader and the inbound channel
\* ------------------------------------------------------------------------

\* scanner.Scan() has returned false on a read error after the last line
AtReadError ==
  /\ stdin.end = "err"
  /\ pc["reader"] = "afterloop"
  /\ pos = Len(stdin.lines)
  /\ \A i \in 1 .. Len(stdin.lines) : stdin.lines[i].kind # "toolong"

\* C23: a read error on the input stream acts as end-of-stream does: the
\* reader fires the cancellation, closes readChan and exits; nothing is
\* handed to the caller for it, and what was delivered stays delivered.
C23_ReadErrorEndsReader ==
  /\ [][AtReadError /\ pc'["reader"] # "afterloop" =>
          cancelled' /\ pc'["reader"] = "closing"]_vars
  /\ AtReadError ~> (cancelled /\ readChanClosed /\ Terminated("reader"))
  /\ [][IsPrefix(delivered, delivered')]_vars
  /\ [][hist.scanEnded => delivered' = delivered]_vars

\* after a read error the reader is gone, readChan is closed, and the
\* Request delivered before it is still there
C23_Witness ==
  /\ stdin.end = "err"
  /\ \A i \in 1 .. Len(stdin.lines) : stdin.lines[i].kind # "toolong"
  /\ delivered # <<>>
  /\ cancelled /\ readChanClosed /\ Terminated("reader")
  /\ ~panicked

\* the reader's scan meets a line longer than the scanner's buffer, with
\* no cancellation fired
TooLongStep ==
  /\ pc["reader"] = "scan"
  /\ pos < Len(stdin.lines)
  /\ pos' = pos + 1
  /\ stdin.lines[pos + 1].kind = "toolong"
  /\ ~cancelled

\* C24: a line longer than the scanner's buffer does not end the reader
\* nor lead it to fire the cancellation: the reader is at its scan again,
\* for the lines that follow.
C24_TooLongLineSkipped ==
  [][TooLongStep => pc'["reader"] = "scan" /\ ~hist'.scanEnded]_vars

\* C25: no Request is handed to the caller once the cancellation has
\* fired: every completed send on readChan happens with the signal not
\* fired, also when the receiver is already waiting.
C25_NoHandOffAfterCancel ==
  [][delivered' # delivered => ~cancelled]_vars

\* C26: whenever readChan is closed the cancellation has fired, and it
\* had fired before the close, on every exit path of the reader.
C26_ClosedImpliesCancelled ==
  /\ [](readChanClosed => cancelled)
  /\ [][~readChanClosed /\ readChanClosed' => cancelled]_vars

\* the handler's range loop has ended after the reader met end-of-stream
C26_Witness ==
  /\ readChanClosed
  /\ hist.scanEnded
  /\ pc["handler"] = "cancel"
  /\ \A p \in CloseCallers : ~CloseEntered(p)

\* C27: readChan is closed exactly once and by the reader only, as the
\* last thing before its wg.Done(), on every exit path; the reader
\* attempts no send on it afterwards, and is counted out of the WaitGroup
\* only with the channel closed.
C27_ReadChanClosedOnce ==
  /\ [][readChanClosed' # readChanClosed =>
          /\ ~readChanClosed
          /\ pc["reader"] = "closing" /\ pc'["reader"] = "wgdone"]_vars
  /\ [](readChanClosed => pc["reader"] \in {"wgdone", "done"})
  /\ [](pc["reader"] \in {"wgdone", "done"} => readChanClosed)

\* the reader left on the cancellation, has closed readChan and has not
\* yet been counted out
C27_Witness ==
  /\ readChanClosed
  /\ pc["reader"] = "wgdone"
  /\ wg = 2
  /\ ~hist.scanEnded

\* ------------------------------------------------------------------------
\* The reference driver
\* ------------------------------------------------------------------------

IsRequestLine(line) ==
  IsWellFormed(line) /\ NotANotification(Unmarshal(line).req)

\* the id values, as JSON text, of the request lines of the input
RequestLineIds ==
  LET rl == SelectSeq(stdin.lines, IsRequestLine)
  IN  [i \in 1 .. Len(rl) |-> IdToken(rl[i].id)]

\* the id values, as JSON text, of the complete lines of the output (the
\* id is the second token of an encoding)
OutputIds == [i \in 1 .. Len(OutLines) |-> OutLines[i][2]]

\* C29: in the reference driver the ids of the Response lines on the
\* output are, in order, a prefix of the ids of the well-formed
\* non-notification request lines of the input.
C29_ResponsesInRequestOrder == IsPrefix(OutputIds, RequestLineIds)

\* the same with the ids as the reader decodes them
C29_UpToDecoding ==
  LET rl == SelectSeq(stdin.lines, IsRequestLine)
  IN  IsPrefix(OutputIds, [i \in 1 .. Len(rl) |-> IdToken(Unmarshal(rl[i]).req.id)])

\* C30: whenever the writer is at its select and no write step has
\* failed, its buffer is empty, so the flush it does when it leaves on the
\* cancellation or on the closed channel puts no new byte on the output.
C30_BufferEmptyAtSelect ==
  /\ [](pc["writer"] = "select" /\ ~bw.err => bw.buf = <<>>)
  /\ [][WriterExits => bw' = bw]_vars

\* the writer has left its select after writing a Response, with no
\* failure
C30_Witness ==
  /\ pc["writer"] = "wgdone"
  /\ ~bw.err
  /\ bw.out # <<>>
  /\ bw.out = LinesOf(Encodable(wrecv))

\* the string the page is taken from: the cursor when there is one, the
\* page query value otherwise
PageString ==
  IF pagination.cursor # EmptyString THEN pagination.cursor
  ELSE pagination.queryParams["page"]

\* missing, non-numeric, zero or negative
GivesDefault(s) ==
  \/ s \in {EmptyString, TextString}
  \/ s.kind = "int" /\ (s.val.neg \/ (s.val.hi = 0 /\ s.val.d1 = 0 /\ s.val.d0 = 0))

\* a decimal number above 1000
Above1000(s) ==
  s.kind = "int" /\ ~s.val.neg /\ (s.val.hi > 0 \/ s.val.d1 > 0 \/ s.val.d0 > 1000)

\* the defaults and the cap of a finished call
C31_DefaultsAndCap ==
  /\ GivesDefault(PageString) => pagination.page = [d1 |-> 0, d0 |-> 1]
  /\ GivesDefault(pagination.queryParams["per_page"])
       => pagination.perPage = [d1 |-> 0, d0 |-> 20]
  /\ Above1000(pagination.queryParams["per_page"])
       => pagination.perPage = [d1 |-> 0, d0 |-> 1000]

\* 1 <= perPage <= 1000
C31_PerPageInRange ==
  /\ pagination.perPage.d1 = 0
  /\ pagination.perPage.d0 >= 1
  /\ pagination.perPage.d0 <= 1000

\* C31: after any call of ParsePagination, whatever the cursor and the
\* page and per_page query values, the 32-bit page is at least 1, perPage
\* is between 1 and 1000, a missing, non-numeric, zero or negative value has
\* given the default (page 1, perPage 20) and a per_page above 1000 has
\* given 1000.
C31_PaginationInRange ==
  pagination.called =>
    /\ pagination.page.d1 > 0 \/ pagination.page.d0 >= 1
    /\ C31_PerPageInRange
    /\ C31_DefaultsAndCap

\* the part of C31 that holds: everything but the lower bound of the page
C31_ExceptPageLowerBound ==
  pagination.called => C31_PerPageInRange /\ C31_DefaultsAndCap

\* a call on a page number that is a multiple of 2^32 has returned page 0
C31_PageZero ==
  /\ pagination.called
  /\ PageString.kind = "int" /\ IsPositive(PageString.val)
  /\ pagination.page = [d1 |-> 0, d0 |-> 0]

\* the two goroutines Start launches
Units == {"reader", "writer"}

\* Start has been called
Started == pc["main"] # "start"

\* C32: the WaitGroup counts the two goroutines.  It is 0 before Start
\* and afterwards it is the number of goroutines that have not terminated,
\* so it is never negative and it is 0 exactly when both the reader and the
\* writer have terminated; it changes only by Start adding two and by a
\* goroutine signalling on its way out; every goroutine that terminates
\* signals exactly once in the step that terminates it and stays terminated.
C32_BarrierCountsUnits ==
  /\ [](wg >= 0)
  /\ [](~Started => wg = 0)
  /\ [](Started => wg = Cardinality({p \in Units : ~Terminated(p)}))
  /\ [](Started => (wg = 0 <=> \A p \in Units : Terminated(p)))
  /\ [][wg' # wg =>
          \/ ~Started /\ Started' /\ wg' = wg + 2
          \/ \E p \in Units : /\ pc[p] = "wgdone" /\ Terminated(p)'
                               /\ wg' = wg - 1]_vars
  /\ [][\A p \in Units :
          /\ ~Terminated(p) /\ Terminated(p)' => wg' = wg - 1
          /\ Terminated(p) => Terminated(p)']_vars

\* both goroutines have terminated, the reader at the end of the input
\* and the writer after writing a Response, and the counter is back at 0
C32_Witness ==
  /\ Started
  /\ \A p \in Units : Terminated(p)
  /\ wg = 0
  /\ hist.scanEnded
  /\ bw.out # <<>>

====
